---- MODULE Spec2Model ----
(***************************************************************************)
(* PIT ID badge application bot (src/main.py): run_apply, run_application  *)
(* and the five pipeline stages, as one sequential process.  The portal,   *)
(* the browser driver and the repository are the environment: what they    *)
(* answer is drawn with \E where the code reads it.                        *)
(***************************************************************************)
EXTENDS Integers, Sequences, FiniteSets, TLC

\* Most records one repository answer holds (bound of the model).
MaxApplicants == 2

\* error_selectors, success_selectors, btn_selectors: lengths of the lists.
NumErrorSelectors == 6
NumSuccessSelectors == 5
NumBtnSelectors == 4
\* len(error_text) > 5
ErrorTextThreshold == 5

Ids == 1..MaxApplicants

StageOrder ==
    << "login", "navigate_to_application_management", "initiate_new_application",
       "fill_duplicate_check", "fill_application_form" >>

Outcomes ==
    { "Submitted", "FilledNotSubmitted", "FailedLogin", "FailedNavigation",
      "FailedDuplicateCheck", "FailedForm", "AmbiguousAssumedSuccess" }

\* The Failed* result that belongs to a stage.
FailedOf(stage) ==
    CASE stage = "login" -> "FailedLogin"
      [] stage = "navigate_to_application_management" -> "FailedNavigation"
      [] stage = "initiate_new_application" -> "FailedNavigation"
      [] stage = "fill_duplicate_check" -> "FailedDuplicateCheck"
      [] OTHER -> "FailedForm"

VARIABLES
    application_id,  \* run_apply argument: TRUE when --id was given
    all_pending,     \* run_apply argument --all
    submit,          \* run_apply argument --submit
    envRepo,         \* SUPABASE_URL and SUPABASE_KEY are both set
    envPortal,       \* PITID_USERNAME and PITID_PASSWORD are both set
    pc,              \* position of the process in run_apply / run_application
    records,         \* the ids of the records run_apply works through
    i,               \* index of the current record in records
    applicant,       \* format_applicant_for_bot(record) of the current record
    sessions,        \* every browser launched: [owner, open]
    page,            \* index in sessions of the current run_application's browser
    served,          \* <<session, applicant>>: a stage acted on session for applicant
    started,         \* stages run_application has started for the current applicant
    results,         \* what each started stage returned (TRUE / FALSE)
    success,         \* run_application's return value for the current applicant
    outcome,         \* per applicant: the ApplicationResult of its pipeline
    pipelines,       \* per applicant: how often run_application was entered
    marks,           \* per applicant: how often mark_badge_request_sent was called
    clicked,         \* applicants for which the form's Submit control was clicked
    classified,      \* applicants for which the post-submit checks were started
    pageSig,         \* success signals the post-submit page shows
    k,               \* loop index inside the post-submit checks
    error_found,     \* fill_application_form's local
    success_found,   \* fill_application_form's local
    qualErr,         \* a visible error pattern with trimmed text longer than 5 was read
    shots,           \* screenshots written during the current pipeline
    configError,     \* a missing required value was detected (ValueError raised)
    success_count,   \* run_apply's local
    fail_count,      \* run_apply's local
    summary,         \* the [SUMMARY] line was printed
    fx,              \* what the stage called last read and did on the page
    fname,           \* function-level runs: the function under study
    fin,             \* function-level runs: its input
    fout             \* function-level runs: its result

vars ==
    << application_id, all_pending, submit, envRepo, envPortal, pc, records, i,
       applicant, sessions, page, served, started, results, success, outcome,
       pipelines, marks, clicked, classified, pageSig, k, error_found,
       success_found, qualErr, shots, configError, success_count, fail_count,
       summary, fx, fname, fin, fout >>

\* Groups of variables an action leaves alone.
argVars == << application_id, all_pending, submit, envRepo, envPortal >>
clsVars == << pageSig, k, error_found, success_found, qualErr >>
cntVars == << success_count, fail_count, summary >>
pureVars == << fname, fin, fout >>

-----------------------------------------------------------------------------
(* Strings are sequences of one-character strings.                        *)

Digits == {"0", "1", "2", "3", "4", "5", "6", "7", "8", "9"}

DigitChars == << "0", "1", "2", "3", "4", "5", "6", "7", "8", "9" >>

\* s.split(sep) from character n on, cur being the part collected so far.
RECURSIVE SplitFrom(_, _, _, _)
SplitFrom(s, sep, n, cur) ==
    IF n > Len(s) THEN << cur >>
    ELSE IF s[n] = sep THEN << cur >> \o SplitFrom(s, sep, n + 1, << >>)
    ELSE SplitFrom(s, sep, n + 1, Append(cur, s[n]))

Split(s, sep) == SplitFrom(s, sep, 1, << >>)

\* int(g) goes through: g is a non-empty run of digits.
IsInt(g) == g # << >> /\ \A n \in 1..Len(g) : g[n] \in Digits

\* int(g) for such a g.
RECURSIVE IntOf(_)
IntOf(g) ==
    IF g = << >> THEN 0
    ELSE 10 * IntOf(SubSeq(g, 1, Len(g) - 1))
         + ((CHOOSE d \in 1..10 : DigitChars[d] = g[Len(g)]) - 1)

\* str(n) for n >= 0.
RECURSIVE StrOf(_)
StrOf(n) ==
    IF n < 10 THEN << DigitChars[n + 1] >>
    ELSE Append(StrOf(n \div 10), DigitChars[(n % 10) + 1])

(* Dates.                                                                  *)

\* date_of_birth missing or null: dob_raw or "" is the empty string.
NoDate == << >>

\* date_of_birth values a repository record may carry:
\* "1990-01-15", "1990-1-5", "1990-01", "01/15/1990" and none.
DobSamples ==
    { << "1", "9", "9", "0", "-", "0", "1", "-", "1", "5" >>,
      << "1", "9", "9", "0", "-", "1", "-", "5" >>,
      << "1", "9", "9", "0", "-", "0", "1" >>,
      << "0", "1", "/", "1", "5", "/", "1", "9", "9", "0" >>,
      NoDate }

\* "-" in dob_raw
HasHyphen(d) == \E n \in 1..Len(d) : d[n] = "-"

\* dob_raw.split("-") then parts[1], parts[2], parts[0]: IndexError when short.
FormatRaises(raw) == HasHyphen(raw) /\ Len(Split(raw, "-")) < 3

\* format_applicant_for_bot's dob_formatted.
FormatDob(raw) ==
    IF HasHyphen(raw)
    THEN LET parts == Split(raw, "-")
         IN  parts[2] \o << "/" >> \o parts[3] \o << "/" >> \o parts[1]
    ELSE raw

\* dob.split("/") and int() of the first three parts succeed.
ParseOk(dob) ==
    LET parts == Split(dob, "/")
    IN  Len(parts) >= 3 /\ \A n \in 1..3 : IsInt(parts[n])

\* Mutant: the field gets the date rebuilt from the parsed integers.
InjectedValue_Rebuilt(dob) ==
    LET parts == Split(dob, "/")
    IN  StrOf(IntOf(parts[1])) \o << "/" >> \o StrOf(IntOf(parts[2]))
            \o << "/" >> \o StrOf(IntOf(parts[3]))

\* input.value = "{dob}" in the injected script: the formatted string itself.
InjectedValue(dob) == dob

NoApplicant == [id |-> 0, dob |-> NoDate]

-----------------------------------------------------------------------------
(* Stage functions: their return value as a function of what the portal    *)
(* shows.  "True" / "False" are returned, "Raise" propagates to the caller. *)

LoginObs ==
    [ goto : BOOLEAN,      \* page.goto and the sign-in click go through
      \* the username step: filled and submitted, filled with no submit
      \* button visible, or failed (its errors are swallowed)
      user : {"submitted", "filled_only", "failed"},
      pw   : BOOLEAN,      \* the password field appears and is submitted
      url  : {"reached", "timeout_on_dashboard", "timeout_elsewhere"} ]

login(hasCreds, o) ==
    IF ~hasCreds THEN "Raise"
    ELSE IF ~o.goto THEN "Raise"
    ELSE IF ~o.pw THEN "False"
    ELSE IF o.url = "timeout_elsewhere" THEN "False"
    ELSE "True"

\* What login did on the sign-in pages on its way to that result.
LoginEffects(hasCreds, o) ==
    LET reached == hasCreds /\ o.goto
    IN  [ stage |-> "login",
          goto  |-> reached,
          user  |-> IF reached THEN o.user ELSE "failed",
          pw    |-> reached /\ o.pw,
          url   |-> IF reached /\ o.pw THEN o.url ELSE "timeout_elsewhere" ]

NavObs == {"clicked", "raises"}

navigate_to_application_management(o) ==
    IF o = "clicked" THEN "True" ELSE "False"

BtnObs == {"hidden", "raises", "visible"}

RECURSIVE InitiateFrom(_, _)
InitiateFrom(o, n) ==
    IF n > NumBtnSelectors THEN "False"
    ELSE IF o[n] = "visible" THEN "True"
    ELSE InitiateFrom(o, n + 1)

initiate_new_application(o) == InitiateFrom(o, 1)

DupObs ==
    [ modal  : BOOLEAN,    \* one of the modal markers appears
      js     : BOOLEAN,    \* the script finds the modal and its date input
      ssn    : BOOLEAN,    \* one of the SSN inputs is visible and filled
      click  : BOOLEAN,    \* the Continue click goes through
      settle : BOOLEAN ]   \* the wait after it goes through

\* Mutant: goes on to the date and SSN without having found the modal.
fill_duplicate_check_NoModalCheck(dob, o) ==
    IF ~ParseOk(dob) THEN "False"
    ELSE IF ~o.click \/ ~o.settle THEN "False"
    ELSE "True"

fill_duplicate_check(dob, o) ==
    IF ~o.modal THEN "False"
    ELSE IF ~ParseOk(dob) THEN "False"
    ELSE IF ~o.click \/ ~o.settle THEN "False"
    ELSE "True"

\* What fill_duplicate_check did to the page on its way to that result.
DupEffects(dob, o) ==
    LET reached == o.modal /\ ParseOk(dob)
    IN  [ stage    |-> "dup",
          modal    |-> o.modal,
          parsed   |-> ParseOk(dob),
          injected |-> reached /\ o.js,
          value    |-> IF reached /\ o.js THEN InjectedValue(dob) ELSE << >>,
          ssn      |-> reached /\ o.ssn,
          cont     |-> reached /\ o.click ]

-----------------------------------------------------------------------------
\* No stage was called yet in this run_application.
NoFx == [stage |-> "none"]

\* The locals and the histories before run_apply did anything.
Fresh ==
    /\ records = << >>
    /\ i = 0
    /\ applicant = NoApplicant
    /\ sessions = << >>
    /\ page = 0
    /\ served = {}
    /\ started = << >>
    /\ results = << >>
    /\ success = FALSE
    /\ outcome = [j \in Ids |-> "None"]
    /\ pipelines = [j \in Ids |-> 0]
    /\ marks = [j \in Ids |-> 0]
    /\ clicked = {}
    /\ classified = {}
    /\ pageSig = [text |-> FALSE, landing |-> FALSE, btnGone |-> FALSE]
    /\ k = 0
    /\ error_found = FALSE
    /\ success_found = FALSE
    /\ qualErr = FALSE
    /\ shots = {}
    /\ configError = FALSE
    /\ success_count = 0
    /\ fail_count = 0
    /\ summary = FALSE
    /\ fx = NoFx

Init ==
    /\ application_id \in BOOLEAN
    /\ all_pending \in BOOLEAN
    /\ submit \in BOOLEAN
    /\ envRepo \in BOOLEAN
    /\ envPortal \in BOOLEAN
    /\ pc = "start"
    /\ Fresh
    /\ fname = "none"
    /\ fin = << >>
    /\ fout = << >>

-----------------------------------------------------------------------------
(* Decisions of run_application and run_apply.                             *)

\* Mutant: the pipeline goes on whatever the stage returned.
ContinueAfter_Always(ret) == TRUE

\* `if not stage(page): return False`: the pipeline goes on only after True.
ContinueAfter(ret) == ret = "True"

\* Mutant: the submit flag is not consulted.
SubmitRequested_Always(sub) == TRUE

\* `if submit:` in fill_application_form.
SubmitRequested(sub) == sub

\* Mutant: the applicant is marked whenever --submit was given.
ShouldMark_IgnoreSuccess(succ, sub) == sub

\* Mutant: the submit flag is read inverted.
ShouldMark_Inverted(succ, sub) == succ /\ ~sub

\* `if success and submit:` in run_apply.
ShouldMark(succ, sub) == succ /\ sub

\* `elif not success:` in run_apply's batch loop.
CountsAsFailed(succ, sub) == ~ShouldMark(succ, sub) /\ ~succ

\* `if error_text and len(error_text) > 5` on a visible error element.
ErrObs ==
    [ vis : {"hidden", "raises", "visible"},
      len : {0, ErrorTextThreshold, ErrorTextThreshold + 1} ]

\* Mutant: the length test is off by one.
IsRealError_OffByOne(o) == o.vis = "visible" /\ o.len > ErrorTextThreshold + 1

IsRealError(o) == o.vis = "visible" /\ o.len > ErrorTextThreshold

\* browser.close(): the browser is closed unless the call itself fails early.
CloseOutcomes == {"closed", "raises_closed", "raises_open"}

\* Mutant: the finally clause is missing.
BrowserClose_Missing(ss, p, r) == ss

BrowserClose(ss, p, r) == [ss EXCEPT ![p].open = (r = "raises_open")]

-----------------------------------------------------------------------------
(* run_apply: entry, and the step to the next record.                      *)

\* An exception leaves run_apply: nothing else of it runs.
Crash == pc' = "crashed"

\* Mutant: --all wins over --id when both are given.
RecordCounts_AllWins(byId, all) ==
    IF byId /\ ~all THEN 0..1 ELSE 0..MaxApplicants

\* How many records run_apply gets to work on: `if application_id` is
\* tested first and fetches the one record, or none.
RecordCounts(byId, all) ==
    IF byId THEN 0..1 ELSE 0..MaxApplicants

RunApplyStart ==
    /\ pc = "start"
    /\ IF application_id \/ all_pending
       THEN IF ~envRepo
            THEN /\ Crash
                 /\ configError' = TRUE
                 /\ UNCHANGED << records, i >>
            ELSE /\ configError' = configError
                 /\ \E n \in RecordCounts(application_id, all_pending) :
                      /\ records' = [j \in 1..n |-> j]
                      /\ IF n = 0
                         THEN \* not found: `return`, or .single() raises
                              /\ pc' = "done" \/ (application_id /\ Crash)
                              /\ i' = i
                         ELSE pc' = "format" /\ i' = 1
       ELSE /\ pc' = "done"
            /\ UNCHANGED << records, i, configError >>
    /\ UNCHANGED << pureVars, fx, argVars, applicant, sessions, page, served, started, results,
                    success, outcome, pipelines, marks, clicked, classified,
                    clsVars, shots, cntVars >>

\* The end of one iteration: single --id mode returns, the batch loop goes on
\* or prints the summary.
Advance ==
    IF application_id
    THEN pc' = "done" /\ i' = i /\ summary' = summary
    ELSE IF i < Len(records)
         THEN pc' = "format" /\ i' = i + 1 /\ summary' = summary
         ELSE pc' = "done" /\ i' = i /\ summary' = TRUE

Format ==
    /\ pc = "format"
    /\ \E raw \in DobSamples :
         IF FormatRaises(raw)
         THEN Crash /\ applicant' = applicant
         ELSE /\ pc' = "launch"
              /\ applicant' = [id |-> records[i], dob |-> FormatDob(raw)]
    /\ UNCHANGED << pureVars, fx, argVars, records, i, sessions, page, served, started, results,
                    success, outcome, pipelines, marks, clicked, classified,
                    clsVars, shots, configError, cntVars >>

-----------------------------------------------------------------------------
(* run_application: the browser session around the pipeline.               *)

Launch ==
    /\ pc = "launch"
    /\ pipelines' = [pipelines EXCEPT ![applicant.id] = @ + 1]
    /\ started' = << >>
    /\ results' = << >>
    /\ shots' = {}
    /\ qualErr' = FALSE
    /\ success' = FALSE
    /\ fx' = NoFx
    /\ \E ok \in BOOLEAN :
         IF ok
         THEN /\ sessions' = Append(sessions, [owner |-> applicant.id, open |-> TRUE])
              /\ page' = Len(sessions) + 1
              /\ pc' = "context"
         ELSE /\ Crash
              /\ UNCHANGED << sessions, page >>
    /\ UNCHANGED << pureVars, argVars, records, i, applicant, served, outcome, marks,
                    clicked, classified, pageSig, k, error_found, success_found,
                    configError, cntVars >>

NewContext ==
    /\ pc = "context"
    /\ \E ok \in BOOLEAN : IF ok THEN pc' = "login" ELSE Crash
    /\ UNCHANGED << pureVars, fx, argVars, records, i, applicant, sessions, page, served, started,
                    results, success, outcome, pipelines, marks, clicked,
                    classified, clsVars, shots, configError, cntVars >>

\* A stage was called on the page and returned (or raised into the except of
\* run_application, which returns False as well).
Stage(stage, ret, nextpc) ==
    /\ started' = Append(started, stage)
    /\ results' = Append(results, ret = "True")
    /\ served' = served \cup {<< page, applicant.id >>}
    /\ IF ContinueAfter(ret)
       THEN /\ pc' = nextpc
            /\ UNCHANGED << success, outcome >>
       ELSE /\ pc' = "close"
            /\ success' = FALSE
            /\ outcome' = [outcome EXCEPT ![applicant.id] = FailedOf(stage)]

Login ==
    /\ pc = "login"
    /\ \E o \in LoginObs :
         /\ Stage("login", login(envPortal, o), "nav")
         /\ fx' = LoginEffects(envPortal, o)
    /\ configError' = (configError \/ ~envPortal)
    /\ UNCHANGED << pureVars, argVars, records, i, applicant, sessions, page, pipelines, marks,
                    clicked, classified, clsVars, shots, cntVars >>

Navigate ==
    /\ pc = "nav"
    /\ \E o \in NavObs :
         Stage("navigate_to_application_management",
               navigate_to_application_management(o), "init")
    /\ UNCHANGED << pureVars, fx, argVars, records, i, applicant, sessions, page, pipelines, marks,
                    clicked, classified, clsVars, shots, configError, cntVars >>

Initiate ==
    /\ pc = "init"
    /\ \E o \in [1..NumBtnSelectors -> BtnObs] :
         Stage("initiate_new_application", initiate_new_application(o), "dup")
    /\ UNCHANGED << pureVars, fx, argVars, records, i, applicant, sessions, page, pipelines, marks,
                    clicked, classified, clsVars, shots, configError, cntVars >>

DuplicateCheck ==
    /\ pc = "dup"
    /\ \E o \in DupObs :
         /\ Stage("fill_duplicate_check", fill_duplicate_check(applicant.dob, o), "form")
         /\ fx' = DupEffects(applicant.dob, o)
    /\ UNCHANGED << pureVars, argVars, records, i, applicant, sessions, page, pipelines, marks,
                    clicked, classified, clsVars, shots, configError, cntVars >>

Close ==
    /\ pc = "close"
    /\ \E r \in CloseOutcomes :
         /\ sessions' = BrowserClose(sessions, page, r)
         /\ IF r = "closed" THEN pc' = "after" ELSE Crash
    /\ UNCHANGED << pureVars, fx, argVars, records, i, applicant, page, served, started, results,
                    success, outcome, pipelines, marks, clicked, classified,
                    clsVars, shots, configError, cntVars >>

-----------------------------------------------------------------------------
(* fill_application_form: the fields and the checkbox, the Submit click,   *)
(* then the post-submit checks, one selector a step.                       *)

\* The fields fill_application_form looks up.
FormFields ==
    { "first_name", "last_name", "email", "phone", "sponsor", "access", "employer",
      "badge_type" }

\* The re-read of the checkbox's class attribute after the tiers: it holds
\* mat-checkbox-checked, it does not, or reading it raises.
CheckboxReads == {"checked", "unchecked", "unreadable"}

\* checkbox_not_checked.png is written in the else branch of the re-read only;
\* `except: pass` covers a read that raises.
VerifyScreenshot(v) == v = "unchecked"

\* A field none of whose selectors is visible: the lookup loops end without
\* filling it and the value fill_autocomplete_field returns is not read.
FieldFailureStopsForm(missing) == FALSE

FormObs ==
    [ fill     : BOOLEAN,   \* heading, fields and checkbox block run without an uncaught exception
      missing  : {"none"} \cup FormFields,  \* a field that cannot be located
      verify   : CheckboxReads,
      click    : BOOLEAN,   \* page.click on the Submit button goes through
      settle   : BOOLEAN ]  \* the waits after the click go through

PageSigs == [ text : BOOLEAN, landing : BOOLEAN, btnGone : BOOLEAN ]

\* fill_application_form returns ret to run_application, which returns it on.
FormReturn(ret, label) ==
    /\ results' = Append(results, ret = "True")
    /\ pc' = "close"
    /\ success' = ContinueAfter(ret)
    /\ outcome' = [outcome EXCEPT ![applicant.id] = label]

FormFill ==
    /\ pc = "form"
    /\ started' = Append(started, "fill_application_form")
    /\ served' = served \cup {<< page, applicant.id >>}
    /\ \E o \in FormObs, sig \in PageSigs :
         IF ~o.fill \/ FieldFailureStopsForm(o.missing)
         THEN /\ FormReturn("False", "FailedForm")
              /\ fx' = [stage |-> "form", reached |-> FALSE, verify |-> "unreadable",
                        missing |-> o.missing # "none"]
              /\ UNCHANGED << clicked, classified, pageSig, k, error_found,
                              success_found, shots >>
         ELSE /\ shots' = shots \cup {"before_checkbox"}
                              \cup (IF VerifyScreenshot(o.verify)
                                    THEN {"checkbox_not_checked"} ELSE {})
              /\ fx' = [stage |-> "form", reached |-> TRUE, verify |-> o.verify,
                        missing |-> o.missing # "none"]
              /\ IF ~SubmitRequested(submit)
                 THEN /\ FormReturn("True", "FilledNotSubmitted")
                      /\ UNCHANGED << clicked, classified, pageSig, k, error_found,
                                      success_found >>
                 ELSE IF ~o.click
                 THEN /\ FormReturn("False", "FailedForm")
                      /\ UNCHANGED << clicked, classified, pageSig, k, error_found,
                                      success_found >>
                 ELSE IF ~o.settle
                 THEN /\ FormReturn("False", "FailedForm")
                      /\ clicked' = clicked \cup {applicant.id}
                      /\ UNCHANGED << classified, pageSig, k, error_found,
                                      success_found >>
                 ELSE /\ clicked' = clicked \cup {applicant.id}
                      /\ classified' = classified \cup {applicant.id}
                      /\ pageSig' = sig
                      /\ k' = 1
                      /\ error_found' = FALSE
                      /\ success_found' = FALSE
                      /\ pc' = "cls_err"
                      /\ UNCHANGED << results, success, outcome >>
    /\ UNCHANGED << pureVars, argVars, records, i, applicant, sessions, page,
                    pipelines, marks, qualErr, configError, cntVars >>

\* for err_sel in error_selectors: ... if error_found: return False
ClsErr ==
    /\ pc = "cls_err"
    /\ \E o \in ErrObs :
         /\ qualErr' = (qualErr \/ (o.vis = "visible" /\ o.len > 5))
         /\ IF IsRealError(o)
            THEN /\ error_found' = TRUE
                 /\ shots' = shots \cup {"submit_error"}
                 /\ FormReturn("False", "FailedForm")
                 /\ k' = k
            ELSE /\ UNCHANGED << error_found, shots, results, success, outcome >>
                 /\ IF k < NumErrorSelectors
                    THEN pc' = pc /\ k' = k + 1
                    ELSE pc' = "cls_suc" /\ k' = 1
    /\ UNCHANGED << pureVars, fx, argVars, records, i, applicant, sessions, page, served, started,
                    pipelines, marks, clicked, classified, pageSig, success_found,
                    configError, cntVars >>

\* What reading success selector n can give on a page with signals sig: when
\* the page shows success text, the last selector at the latest matches it.
SucObs(sig, n) ==
    IF ~sig.text THEN {"hidden", "raises", "empty"}
    ELSE IF n = NumSuccessSelectors THEN {"text"}
    ELSE {"hidden", "raises", "empty", "text"}

\* for suc_sel in success_selectors: visible with non-empty text ends the loop
ClsSuc ==
    /\ pc = "cls_suc"
    /\ \E o \in SucObs(pageSig, k) :
         IF o = "text"
         THEN success_found' = TRUE /\ pc' = "cls_landing" /\ k' = k
         ELSE /\ success_found' = success_found
              /\ IF k < NumSuccessSelectors
                 THEN pc' = pc /\ k' = k + 1
                 ELSE pc' = "cls_landing" /\ k' = k
    /\ UNCHANGED << pureVars, fx, argVars, records, i, applicant, sessions, page, served, started,
                    results, success, outcome, pipelines, marks, clicked,
                    classified, pageSig, error_found, qualErr, shots, configError,
                    cntVars >>

\* if not success_found: the page content holds a landing-page marker
ClsLanding ==
    /\ pc = "cls_landing"
    /\ success_found' = (success_found \/ pageSig.landing)
    /\ pc' = "cls_btn"
    /\ UNCHANGED << pureVars, fx, argVars, records, i, applicant, sessions, page, served, started,
                    results, success, outcome, pipelines, marks, clicked,
                    classified, pageSig, k, error_found, qualErr, shots,
                    configError, cntVars >>

\* if not success_found: the Submit button is no longer visible
ClsBtn ==
    /\ pc = "cls_btn"
    /\ success_found' = (success_found \/ pageSig.btnGone)
    /\ pc' = "cls_end"
    /\ UNCHANGED << pureVars, fx, argVars, records, i, applicant, sessions, page, served, started,
                    results, success, outcome, pipelines, marks, clicked,
                    classified, pageSig, k, error_found, qualErr, shots,
                    configError, cntVars >>

\* Mutant: an unconfirmed submission is reported like a confirmed one.
FinalVerdict_NeverAmbiguous(found) == "Submitted"

\* The result once no error was found: confirmed, or assumed.
FinalVerdict(found) ==
    IF found THEN "Submitted" ELSE "AmbiguousAssumedSuccess"

\* if success_found: return True; else: screenshot, assume success, return True
ClsEnd ==
    /\ pc = "cls_end"
    /\ FormReturn("True", FinalVerdict(success_found))
    /\ shots' = IF success_found THEN shots ELSE shots \cup {"submit_uncertain"}
    /\ UNCHANGED << pureVars, fx, argVars, records, i, applicant, sessions, page, served, started,
                    pipelines, marks, clicked, classified, clsVars, configError,
                    cntVars >>

-----------------------------------------------------------------------------
(* run_apply after run_application returned.                               *)

MarkOutcomes == {"updated", "no_task_record", "raises"}

AfterRun ==
    /\ pc = "after"
    /\ IF ShouldMark(success, submit)
       THEN /\ pc' = "mark"
            /\ UNCHANGED << i, cntVars >>
       ELSE /\ fail_count' =
                 IF CountsAsFailed(success, submit) /\ ~application_id
                 THEN fail_count + 1 ELSE fail_count
            /\ success_count' = success_count
            /\ Advance
    /\ UNCHANGED << pureVars, fx, argVars, records, applicant, sessions, page, served, started,
                    results, success, outcome, pipelines, marks, clicked,
                    classified, clsVars, shots, configError >>

\* mark_badge_request_sent(id) is called; in the batch loop success_count += 1
Mark ==
    /\ pc = "mark"
    /\ marks' = [marks EXCEPT ![applicant.id] = @ + 1]
    /\ \E r \in MarkOutcomes :
         IF r = "raises"
         THEN Crash /\ UNCHANGED << i, cntVars >>
         ELSE /\ success_count' =
                   IF application_id THEN success_count ELSE success_count + 1
              /\ fail_count' = fail_count
              /\ Advance
    /\ UNCHANGED << pureVars, fx, argVars, records, applicant, sessions, page, served, started,
                    results, success, outcome, pipelines, clicked, classified,
                    clsVars, shots, configError >>

-----------------------------------------------------------------------------
Next ==
    \/ RunApplyStart
    \/ Format
    \/ Launch
    \/ NewContext
    \/ Login
    \/ Navigate
    \/ Initiate
    \/ DuplicateCheck
    \/ FormFill
    \/ ClsErr
    \/ ClsSuc
    \/ ClsLanding
    \/ ClsBtn
    \/ ClsEnd
    \/ Close
    \/ AfterRun
    \/ Mark

Spec == Init /\ [][Next]_vars

-----------------------------------------------------------------------------
(* Function-level runs: one function of the program is applied to one      *)
(* input.  fname names the function, fin is the input, fout the result.    *)

NotRun == [done |-> FALSE]

\* No run_apply is under way in a function-level run.
FnIdle ==
    /\ application_id = FALSE
    /\ all_pending = FALSE
    /\ submit = FALSE
    /\ envRepo = TRUE
    /\ envPortal = TRUE
    /\ pc = "idle"
    /\ Fresh

fnFrame == << argVars, pc, records, i, applicant, sessions, page, served, started,
              results, success, outcome, pipelines, marks, clicked, classified,
              clsVars, shots, configError, cntVars, fx >>

(* format_applicant_for_bot: the phone.  A string is the sequence of its    *)
(* characters.                                                             *)

\* Longest phone value drawn (bound of the model).
MaxPhoneLen == 4

\* Mutant: the filter drops the dashes only.
IsDigit_NotDash(c) == c # "-"

\* c.isdigit()
IsDigit(c) == c \in Digits

\* Characters a phone value is drawn from.
PhoneChars == {"4", "0", "-", "("}

\* applicant_phone of a record: missing or null, or a string.
PhoneInputs ==
    { [null |-> TRUE, chars |-> << >>] } \cup
    { [null |-> FALSE, chars |-> c] :
        c \in UNION { [1..n -> PhoneChars] : n \in 0..MaxPhoneLen } }

\* "".join(c for c in phone_raw if c.isdigit()), from character n on.
RECURSIVE KeepDigits(_, _)
KeepDigits(s, n) ==
    IF n > Len(s) THEN << >>
    ELSE IF IsDigit(s[n]) THEN << s[n] >> \o KeepDigits(s, n + 1)
    ELSE KeepDigits(s, n + 1)

\* phone_raw = record.get("applicant_phone", "") or ""; phone_clean
PhoneClean(raw) == KeepDigits(IF raw.null THEN << >> ELSE raw.chars, 1)

ApplyPhone ==
    /\ fname = "phone"
    /\ ~fout.done
    /\ fout' = [done |-> TRUE, val |-> PhoneClean(fin)]
    /\ UNCHANGED << fname, fin, fnFrame >>

MaxGroupLen == 4

DateDigits == {"0", "1"}

\* Year, month and day groups of an ISO date of birth in a record.
DateGroups == UNION { [1..n -> DateDigits] : n \in 1..MaxGroupLen }

DateInputs == [y : DateGroups, m : DateGroups, d : DateGroups]

\* The record's date_of_birth: the three groups joined with hyphens.
IsoDate(g) == g.y \o << "-" >> \o g.m \o << "-" >> \o g.d

\* format_applicant_for_bot on a record whose date_of_birth is IsoDate(fin).
ApplyFormatDob ==
    /\ fname = "dob"
    /\ ~fout.done
    /\ fout' = [done |-> TRUE, val |-> FormatDob(IsoDate(fin)),
                inj |-> FALSE, injected |-> << >>]
    /\ UNCHANGED << fname, fin, fnFrame >>

\* fill_duplicate_check's script sets the date field from the formatted dob.
ApplyInjectDob ==
    /\ fname = "dob"
    /\ fout.done
    /\ ~fout.inj
    /\ ParseOk(fout.val)
    /\ fout' = [fout EXCEPT !.inj = TRUE, !.injected = InjectedValue(fout.val)]
    /\ UNCHANGED << fname, fin, fnFrame >>

MaxRows == 2

MaxTasks == 2

\* The embedded new_hire_setup_tasks of a row: null, a list of task records
\* or a single task record; flags are their airport_badge_request_sent.
TaskShapes ==
    { [kind |-> "none", flags |-> << >>] }
        \cup { [kind |-> "list", flags |-> f] :
                 f \in UNION { [1..n -> BOOLEAN] : n \in 0..MaxTasks } }
        \cup { [kind |-> "dict", flags |-> << b >>] : b \in BOOLEAN }

\* Rows of new_hire_submissions: airport store or not, ssn_last_4 non-null
\* or null, and the embedded task records.
Rows == [airport : BOOLEAN, ssn : BOOLEAN, tasks : TaskShapes]

TableInputs == UNION { [1..n -> Rows] : n \in 0..MaxRows }

\* .eq("store_number", AIRPORT_STORE).not_.is_("ssn_last_4", "null")
Selected(row) == row.airport /\ row.ssn

\* The loop body's test on one record of response.data.
IsPending(t) ==
    IF t.kind = "none" \/ t.flags = << >> THEN TRUE
    ELSE IF t.kind = "list" THEN ~t.flags[1]
    ELSE ~t.flags[1]

\* The indexes, in order, of the rows returned as pending.
RECURSIVE PendingFrom(_, _)
PendingFrom(table, n) ==
    IF n > Len(table) THEN << >>
    ELSE IF Selected(table[n]) /\ IsPending(table[n].tasks)
         THEN << n >> \o PendingFrom(table, n + 1)
         ELSE PendingFrom(table, n + 1)

get_pending_airport_applications(table) == PendingFrom(table, 1)

ApplyPending ==
    /\ fname = "pending"
    /\ ~fout.done
    /\ fout' = [done |-> TRUE, val |-> get_pending_airport_applications(fin)]
    /\ UNCHANGED << fname, fin, fnFrame >>

MaxMatches == 2

\* What the page holds for one candidate selector: how many elements it
\* matches, whether the first of them is visible within the candidate's
\* timeout, and whether acting on it (click, fill) goes through.
CandObs ==
    { c \in [count : 0..MaxMatches, visible : BOOLEAN, acts : BOOLEAN] :
        /\ c.count = 0 => ~c.visible
        /\ ~c.visible => ~c.acts }

CandidateLists == UNION { [1..n -> CandObs] : n \in 1..NumBtnSelectors }

\* page.locator(selector).first, is_visible and the action, inside the try.
Observed(c) ==
    IF c.visible /\ c.acts THEN "visible"
    ELSE IF c.visible THEN "raises"
    ELSE "hidden"

\* The loop over the candidates before its first iteration.
LocateStart == [done |-> FALSE, n |-> 1, tried |-> << >>, acted |-> 0, ret |-> "none"]

\* One iteration of the loop over the candidates, or the fall-through after it.
TryCandidate ==
    /\ fname = "locate"
    /\ ~fout.done
    /\ LET st == IF fout = NotRun THEN LocateStart ELSE fout
       IN  IF st.n > Len(fin)
           THEN fout' = [st EXCEPT !.done = TRUE, !.ret = "False"]
           ELSE IF Observed(fin[st.n]) = "visible"
                THEN fout' = [st EXCEPT !.done = TRUE, !.ret = "True",
                                        !.acted = st.n,
                                        !.tried = Append(st.tried, st.n)]
                ELSE fout' = [st EXCEPT !.n = st.n + 1,
                                        !.tried = Append(st.tried, st.n)]
    /\ UNCHANGED << fname, fin, fnFrame >>

NumTiers == 5

\* What the form page holds around the certification checkbox, and which
\* of the five methods' page calls raise.
CheckboxDoms ==
    { d \in [ present      : BOOLEAN,   \* a mat-checkbox element exists
              certVisible  : BOOLEAN,   \* mat-checkbox:has-text('certify') is visible
              boxVisible   : BOOLEAN,   \* the first mat-checkbox is visible
              labelVisible : BOOLEAN,   \* its label is visible
              checked      : BOOLEAN,   \* it starts in the checked state
              hostToggles  : BOOLEAN,   \* a scripted click on the host element toggles it
              raises       : SUBSET (1..NumTiers) ] :
        ~d.present => /\ ~d.certVisible /\ ~d.boxVisible /\ ~d.labelVisible
                      /\ ~d.checked /\ ~d.hostToggles }

\* checkbox_clicked = False, before the first method.
TiersStart ==
    [ done |-> FALSE, tier |-> 1, checkbox_clicked |-> FALSE, succeeded |-> 0,
      attempted |-> {}, acted |-> {}, onChecked |-> {}, checked |-> FALSE ]

\* A click of method t goes through: the box toggles, the method succeeded.
Clicked(st, t) ==
    [st EXCEPT !.checkbox_clicked = TRUE, !.succeeded = t,
               !.acted = @ \cup {t},
               !.onChecked = IF st.checked THEN @ \cup {t} ELSE @,
               !.checked = ~st.checked]

\* Method 1: the checkbox with the certification text.
Method1(d, st) ==
    IF d.certVisible /\ 1 \notin d.raises THEN Clicked(st, 1) ELSE st

\* Method 2: the mat-checkbox container, unless already checked.
Method2(d, st) ==
    IF d.boxVisible /\ 2 \notin d.raises
    THEN IF ~st.checked THEN Clicked(st, 2)
         ELSE [st EXCEPT !.checkbox_clicked = TRUE, !.succeeded = 2]
    ELSE st

\* Method 3: the label inside the mat-checkbox.
Method3(d, st) ==
    IF d.labelVisible /\ 3 \notin d.raises THEN Clicked(st, 3) ELSE st

\* Method 4: the script clicks the input when unchecked, then the host
\* element; checkbox_clicked is set whether or not a mat-checkbox exists.
Method4(d, st) ==
    IF 4 \in d.raises THEN st
    ELSE IF ~d.present
         THEN [st EXCEPT !.checkbox_clicked = TRUE, !.succeeded = 4]
         ELSE LET afterInput == TRUE
                  afterHost == IF d.hostToggles THEN ~afterInput ELSE afterInput
              IN  [st EXCEPT !.checkbox_clicked = TRUE, !.succeeded = 4,
                             !.acted = @ \cup {4},
                             !.onChecked = IF st.checked \/ d.hostToggles
                                           THEN @ \cup {4} ELSE @,
                             !.checked = afterHost]

\* Method 5: a mouse click at the box of the first mat-checkbox, when it
\* has one.
Method5(d, st) ==
    IF d.boxVisible /\ 5 \notin d.raises THEN Clicked(st, 5) ELSE st

Method(t, d, st) ==
    CASE t = 1 -> Method1(d, st)
      [] t = 2 -> Method2(d, st)
      [] t = 3 -> Method3(d, st)
      [] t = 4 -> Method4(d, st)
      [] t = 5 -> Method5(d, st)

\* The next method in turn: skipped once checkbox_clicked is set.
CheckboxStep ==
    /\ fname = "checkbox"
    /\ ~fout.done
    /\ LET st == IF fout = NotRun
                 THEN [TiersStart EXCEPT !.checked = fin.checked]
                 ELSE fout
           t  == st.tier
           ran == IF t = 1 \/ ~st.checkbox_clicked
                  THEN Method(t, fin, [st EXCEPT !.attempted = @ \cup {t}])
                  ELSE st
       IN  fout' = [ran EXCEPT !.tier = t + 1, !.done = (t = NumTiers)]
    /\ UNCHANGED << fname, fin, fnFrame >>

\* Rows a first batch run found pending and submitted successfully.
SubmittedRows == { r \in Rows : Selected(r) /\ IsPending(r.tasks) }

\* mark_badge_request_sent on a row's task records, w being the record the
\* unordered select returns first: no record, nothing is written.
mark_badge_request_sent(t, w) ==
    IF t.flags = << >> THEN t
    ELSE [t EXCEPT !.flags[w] = TRUE]

\* run_apply's call of mark_badge_request_sent after a successful submit.
ApplyMark ==
    /\ fname = "rerun"
    /\ fout = NotRun
    /\ \E w \in 1..MaxTasks :
         /\ w <= Len(fin.tasks.flags) \/ (w = 1 /\ fin.tasks.flags = << >>)
         /\ fout' = [ done |-> FALSE,
                      updated |-> fin.tasks.flags # << >>,
                      tasks |-> mark_badge_request_sent(fin.tasks, w),
                      pending |-> TRUE ]
    /\ UNCHANGED << fname, fin, fnFrame >>

\* The next batch run's get_pending_airport_applications on that row.
ApplyRefetch ==
    /\ fname = "rerun"
    /\ fout # NotRun
    /\ ~fout.done
    /\ fout' = [fout EXCEPT !.done = TRUE,
                            !.pending = get_pending_airport_applications(
                                            << [fin EXCEPT !.tasks = fout.tasks] >>)
                                        # << >>]
    /\ UNCHANGED << fname, fin, fnFrame >>

MaxContainers == 2

\* What a visibility check gives.
VisObs == {"visible", "hidden", "raises"}

\* One mat-form-field of the secondary scan: reading its text raises, the
\* text lacks the label, or it holds the label and its input's visibility
\* check gives vis.
Containers ==
    { [label |-> "raises", vis |-> "hidden"], [label |-> "other", vis |-> "hidden"] }
        \cup { [label |-> "match", vis |-> v] : v \in VisObs }

AutocompleteInputs ==
    { [field |-> "sponsor", primary |-> p, scan |-> << >>] : p \in [1..2 -> VisObs] }
        \cup { [field |-> f, primary |-> << v >>, scan |-> s] :
                 f \in {"access", "employer"}, v \in VisObs,
                 s \in UNION { [1..n -> Containers] : n \in 0..MaxContainers } }

\* The sponsor loop: inp is reset on a hidden candidate and on a raise.
RECURSIVE SponsorLookup(_, _, _)
SponsorLookup(p, n, inp) ==
    IF n > Len(p) THEN inp
    ELSE IF p[n] = "visible" THEN "visible"
    ELSE SponsorLookup(p, n + 1, "none")

\* The first lookup of access and employer: reset unless visible.
PrimaryLookup(v) == IF v = "visible" THEN "visible" ELSE "none"

\* The scan of all mat-form-field containers: inp is assigned before its
\* visibility check, reset when the check returns false, and left as it is
\* when the check raises (`except: continue`).
RECURSIVE ScanFrom(_, _, _)
ScanFrom(s, n, inp) ==
    IF n > Len(s) THEN inp
    ELSE IF s[n].label # "match" THEN ScanFrom(s, n + 1, inp)
    ELSE IF s[n].vis = "visible" THEN "visible"
    ELSE IF s[n].vis = "hidden" THEN ScanFrom(s, n + 1, "none")
    ELSE ScanFrom(s, n + 1, "unconfirmed")

\* inp after the field-specific lookup: none, an element whose visibility
\* check returned true, or an element whose check never returned.
LookupInput(a) ==
    IF a.field = "sponsor" THEN SponsorLookup(a.primary, 1, "none")
    ELSE IF PrimaryLookup(a.primary[1]) # "none" THEN "visible"
    ELSE ScanFrom(a.scan, 1, "none")

\* fill_autocomplete_field up to the typing of the trigger string.
ApplyAutocomplete ==
    /\ fname = "autocomplete"
    /\ ~fout.done
    /\ LET inp == LookupInput(fin)
       IN  fout' = [ done |-> TRUE, inp |-> inp,
                     typed |-> inp # "none",
                     could_not_find |-> inp = "none" ]
    /\ UNCHANGED << fname, fin, fnFrame >>

FnInit ==
    /\ FnIdle
    /\ fout = NotRun
    /\ \/ fname = "phone" /\ fin \in PhoneInputs
       \/ fname = "dob" /\ fin \in DateInputs
       \/ fname = "pending" /\ fin \in TableInputs
       \/ fname = "locate" /\ fin \in CandidateLists
       \/ fname = "checkbox" /\ fin \in CheckboxDoms
       \/ fname = "rerun" /\ fin \in SubmittedRows
       \/ fname = "autocomplete" /\ fin \in AutocompleteInputs

FnNext ==
    \/ ApplyPhone
    \/ ApplyFormatDob
    \/ ApplyInjectDob
    \/ ApplyPending
    \/ TryCandidate
    \/ CheckboxStep
    \/ ApplyMark
    \/ ApplyRefetch
    \/ ApplyAutocomplete

SpecFn == FnInit /\ [][FnNext]_vars

-----------------------------------------------------------------------------
(* Properties.                                                             *)

SuccessOutcomes == {"Submitted", "FilledNotSubmitted", "AmbiguousAssumedSuccess"}

\* The applicant the current run_application acts for.
Owner == sessions[page].owner

OpenSessions == {s \in DOMAIN sessions : sessions[s].open}

BatchMode == ~application_id /\ all_pending

\* run_apply is done with record j (its marking step included).
Past(j) == j <= Len(records) /\ (i > j \/ pc = "done")

ClsPcs == {"cls_err", "cls_suc", "cls_landing", "cls_btn", "cls_end"}

\* C1: with submit = false the Submit control is never clicked, a pipeline that
\* gets through form filling ends as FilledNotSubmitted (success), and
\* mark_badge_request_sent is never invoked.
C1_DryRunNeverSubmits ==
    ~submit =>
        /\ clicked = {}
        /\ classified = {}
        /\ pc \notin ClsPcs \cup {"mark"}
        /\ \A j \in Ids : marks[j] = 0
        /\ \A j \in Ids : outcome[j] \notin {"Submitted", "AmbiguousAssumedSuccess"}
        /\ (Len(results) = 5 /\ results[5]) =>
               (success /\ outcome[Owner] = "FilledNotSubmitted")

C1_Witness ==
    /\ ~submit
    /\ BatchMode
    /\ pc = "done"
    /\ Len(records) = 2
    /\ outcome[1] = "FilledNotSubmitted"
    /\ outcome[2] = "FilledNotSubmitted"

\* C2 as claimed: mark_badge_request_sent is invoked for an applicant only when
\* its run ended as Submitted; AmbiguousAssumedSuccess skips the mutation.
C2_MarkedOnlyIfSubmitted ==
    \A j \in Ids : marks[j] > 0 => outcome[j] = "Submitted"

\* C2 as amended: mark_badge_request_sent is invoked for an applicant only when
\* --submit was given and its run ended as Submitted or AmbiguousAssumedSuccess;
\* on FilledNotSubmitted and every Failed* outcome the mutation is skipped.
C2_MarkedOnlyIfSubmittedOrAmbiguous ==
    \A j \in Ids :
        /\ marks[j] > 0 =>
               (submit /\ outcome[j] \in {"Submitted", "AmbiguousAssumedSuccess"})
        /\ pc = "mark" => (success /\ outcome[Owner] \in SuccessOutcomes)

C2_Witness ==
    /\ pc = "done"
    /\ marks[1] = 1
    /\ outcome[1] = "AmbiguousAssumedSuccess"

C5_StagesFailFast ==
    /\ Len(started) <= Len(StageOrder)
    /\ \A n \in 1..Len(started) : started[n] = StageOrder[n]
    /\ Len(results) <= Len(started)
    /\ Len(started) <= Len(results) + 1
    /\ \A n \in 1..Len(results) :
         ~results[n] =>
            /\ n = Len(started)
            /\ pc \notin {"login", "nav", "init", "dup", "form"} \cup ClsPcs
            /\ ~success
            /\ outcome[Owner] = FailedOf(started[n])
            /\ marks[Owner] = 0

C5_Witness ==
    /\ pc = "after"
    /\ started = << "login" >>
    /\ results = << FALSE >>
    /\ outcome[Owner] = "FailedLogin"
    /\ marks[Owner] = 0

\* C6 as claimed: in batch mode every record returned gets its pipeline started
\* exactly once and the summary is printed, whatever happened to earlier
\* applicants.
C6_BatchNeverAborts ==
    (BatchMode /\ Len(records) > 0 /\ pc \in {"done", "crashed"}) =>
        /\ \A j \in 1..Len(records) : pipelines[j] = 1
        /\ summary

\* C7 as claimed: at the end of a batch run succeeded and failed count the
\* applicants whose pipeline ended in success and in failure, and add up to the
\* number of applicants processed, for submit = true and submit = false.
C7_SummaryCounts ==
    (BatchMode /\ pc = "done" /\ summary) =>
        /\ success_count =
             Cardinality({j \in 1..Len(records) : outcome[j] \in SuccessOutcomes})
        /\ fail_count =
             Cardinality({j \in 1..Len(records) : outcome[j] \notin SuccessOutcomes})
        /\ success_count + fail_count = Len(records)

\* C8 as claimed: every browser run_application launched is closed when
\* run_application is left, on every exit path.
C8_BrowserClosedOnExit ==
    pc \in {"format", "launch", "after", "mark", "done", "crashed"} =>
        OpenSessions = {}

\* C9: at most one browser session is open at any time, only the latest one;
\* a session acts for one applicant only, no applicant gets two sessions, and
\* the session is closed before the applicant is marked.
C9_OneSessionAtATime ==
    /\ Cardinality(OpenSessions) <= 1
    /\ \A s \in OpenSessions : s = Len(sessions) /\ s = page
    /\ pc \in {"after", "mark", "format", "launch"} => OpenSessions = {}
    /\ \A s, t \in DOMAIN sessions : s # t => sessions[s].owner # sessions[t].owner
    /\ \A u \in served : sessions[u[1]].owner = u[2]

C9_Witness ==
    /\ Len(sessions) = 2
    /\ ~sessions[1].open
    /\ sessions[2].open
    /\ marks[1] = 1
    /\ << 1, 1 >> \in served
    /\ << 2, 2 >> \in served

\* C10 as claimed: no browser is launched while a required configuration value
\* is missing.
C10_ConfigCheckedBeforeBrowser ==
    (~envRepo \/ ~envPortal) => Len(sessions) = 0

\* C11 as claimed: a missing portal credential ends the whole run: it is never
\* turned into a per-applicant result, and no further applicant is processed
\* after it was detected.
C11_MissingCredentialIsFatal ==
    ~envPortal =>
        /\ \A j \in Ids : outcome[j] \notin Outcomes
        /\ \A j \in Ids : pipelines[j] > 0 => j = 1
        /\ pc \notin {"after", "mark"}

\* C12 as claimed: once the tiers are through, every re-read of the checkbox
\* that does not show it checked (unchecked, or not readable at all) leaves a
\* diagnostic screenshot.
C12_UnverifiedCheckboxLeavesScreenshot ==
    (fx.stage = "form" /\ fx.reached /\ fx.verify # "checked") =>
        "checkbox_not_checked" \in shots

\* C18 as claimed: when a field of the form cannot be located, the form stage
\* returns failure, Submit is not clicked and the applicant is not marked.
C18_MissingFieldFailsForm ==
    (fx.stage = "form" /\ fx.missing) =>
        /\ ~success
        /\ pc \notin ClsPcs
        /\ Owner \notin clicked
        /\ marks[Owner] = 0

\* C13: the normalized phone is exactly the digit characters of the input in
\* their order (empty for a missing or null phone), and normalizing it again
\* returns it unchanged.
C13_PhoneDigitsOnlyIdempotent ==
    (fname = "phone" /\ fout.done) =>
        /\ fout.val =
             SelectSeq(IF fin.null THEN << >> ELSE fin.chars,
                       LAMBDA c : c \in Digits)
        /\ fin.null => fout.val = << >>
        /\ PhoneClean([null |-> FALSE, chars |-> fout.val]) = fout.val

C13_Witness ==
    /\ fname = "phone"
    /\ fout.done
    /\ fin.chars = << "(", "4", "-", "0" >>
    /\ fout.val = << "4", "0" >>

\* C14: an ISO date of birth YYYY-MM-DD is reformatted to MM/DD/YYYY with
\* the three hyphen-separated groups kept verbatim (no padding added or
\* removed), and the value written into the date field is that formatted
\* string itself, not one rebuilt from the parsed integers.
C14_DobGroupsVerbatim ==
    (fname = "dob" /\ fout.done) =>
        /\ fout.val = fin.m \o << "/" >> \o fin.d \o << "/" >> \o fin.y
        /\ fout.inj => fout.injected = fout.val

\* A date with a zero-padded month and an unpadded day has been formatted
\* and written into the field.
C14_Witness ==
    /\ fname = "dob"
    /\ fout.done
    /\ fout.inj
    /\ fin.m = << "0", "1" >>
    /\ fin.d = << "1" >>
    /\ fout.injected = << "0", "1", "/", "1", "/", "1", "0", "0", "1" >>

\* C15: get_pending_airport_applications returns exactly the airport-store
\* records that have a last-4 SSN and no associated task record with the
\* badge-request-sent flag set: such a record is excluded if and only if
\* some associated task record has the flag set, however many there are.
C15_PendingExactlyUnsent ==
    (fname = "pending" /\ fout.done) =>
        \A n \in 1..Len(fin) :
            (\E m \in 1..Len(fout.val) : fout.val[m] = n)
                <=> /\ fin[n].airport
                    /\ fin[n].ssn
                    /\ ~\E t \in 1..Len(fin[n].tasks.flags) :
                          fin[n].tasks.flags[t]

\* C16: when none of the modal markers appears, or the date of birth cannot
\* be parsed into month/day/year integers, fill_duplicate_check returns
\* False: the run ends as FailedDuplicateCheck and the form stage never
\* starts; when the modal is missing no date is injected, no SSN is typed
\* and Continue is not clicked.
C16_NoModalOrBadDateFailsDuplicateCheck ==
    fx.stage = "dup" =>
        /\ started[Len(started)] = "fill_duplicate_check"
        /\ (~fx.modal \/ ~fx.parsed) =>
              /\ ~results[Len(results)]
              /\ ~success
              /\ outcome[Owner] = "FailedDuplicateCheck"
              /\ pc \notin {"form"} \cup ClsPcs
        /\ ~fx.modal => (~fx.injected /\ ~fx.ssn /\ ~fx.cont)

\* A run whose duplicate-check modal never appeared has ended.
C16_Witness ==
    /\ fx.stage = "dup"
    /\ ~fx.modal
    /\ fx.parsed
    /\ pc = "after"
    /\ results = << TRUE, TRUE, TRUE, FALSE >>
    /\ outcome[Owner] = "FailedDuplicateCheck"

\* C17: login follows Start -> UsernameEntered -> PasswordEntered ->
\* LoggedIn | FailedLogin: the password is entered and submitted only after
\* the username was filled and submitted, login succeeds only through both
\* steps, and a failed username step fails the login with no password
\* entered.
C17_PasswordOnlyAfterUsername ==
    fx.stage = "login" =>
        /\ fx.pw => fx.user = "submitted"
        /\ results[1] => (fx.user = "submitted" /\ fx.pw)
        /\ fx.user # "submitted" => (~results[1] /\ ~fx.pw)

\* C19: resolution over an ordered candidate list acts on the first
\* candidate in list order that resolves to exactly one visible element,
\* never on a later candidate when an earlier one qualifies and never on a
\* candidate matching several elements, and ends with NotFound after trying
\* each candidate once when no candidate is visible.
C19_FirstUniqueVisibleCandidate ==
    (fname = "locate" /\ fout.done) =>
        /\ fout.acted # 0 =>
              /\ fin[fout.acted].count = 1
              /\ fin[fout.acted].visible
              /\ \A b \in 1..(fout.acted - 1) :
                    ~(fin[b].count = 1 /\ fin[b].visible)
        /\ (\A n \in 1..Len(fin) : ~fin[n].visible) =>
              /\ fout.ret = "False"
              /\ fout.acted = 0
              /\ fout.tried = [n \in 1..Len(fin) |-> n]

\* The element method t acts on is visible.
TierTargetVisible(t) ==
    CASE t = 1 -> fin.certVisible
      [] t = 3 -> fin.labelVisible
      [] OTHER -> fin.boxVisible

\* C20: the checkbox tiers are attempted in the order 1 to 5, tier k+1
\* only if tiers 1..k all did not succeed; once a tier succeeded no later
\* tier acts on the page; a tier acts only when its target element is
\* visible, so none counts as succeeded when no checkbox is present; tier 2
\* clicks only when the box is not already checked; and tier 5 is reached
\* whenever tiers 1 to 4 had no effective target.
C20_TiersInOrderGatedByVisibility ==
    (fname = "checkbox" /\ fout # NotRun) =>
        /\ fout.attempted \subseteq 1..(fout.tier - 1)
        /\ \A t \in fout.attempted : \A u \in 1..(t - 1) : u \in fout.attempted
        /\ \A t \in fout.attempted : fout.succeeded = 0 \/ fout.succeeded >= t
        /\ \A t \in fout.acted : fout.succeeded # 0 /\ t <= fout.succeeded
        /\ \A t \in fout.acted : TierTargetVisible(t)
        /\ fout.succeeded # 0 => fin.present
        /\ 2 \notin fout.onChecked
        /\ (fout.done /\ ~fin.certVisible /\ ~fin.boxVisible /\ ~fin.labelVisible)
              => 5 \in fout.attempted

StagePcs == {"login", "nav", "init", "dup", "form"} \cup ClsPcs

\* C22: with the credentials present, any failure inside login (the portal
\* root or the sign-in action failing, the username or the password field
\* never appearing, the dashboard URL never reached) ends the applicant's
\* run as FailedLogin, and no step of any stage lets an exception leave
\* run_application.
C22_LoginFailuresEndAsFailedLogin ==
    /\ [](  ( /\ fx.stage = "login"
              /\ envPortal
              /\ \/ ~fx.goto
                 \/ fx.user = "failed"
                 \/ ~fx.pw
                 \/ fx.url = "timeout_elsewhere" )
            => ( /\ ~results[1]
                 /\ ~success
                 /\ outcome[Owner] = "FailedLogin" ) )
    /\ [][(pc \in StagePcs) => (pc' # "crashed")]_vars

\* C23: a screenshot is captured only on an uncertain or error path: a run
\* whose checkbox was verified as checked and that ended as Submitted or
\* FilledNotSubmitted captured none.
C23_NoScreenshotOnCleanRun ==
    ( /\ fx.stage = "form"
      /\ fx.verify = "checked"
      /\ Len(results) = 5
      /\ outcome[Owner] \in {"Submitted", "FilledNotSubmitted"} )
        => shots = {}

\* C24: across consecutive batch runs with submit = true, an applicant
\* whose run succeeded and for whom mark_badge_request_sent was called is
\* not returned by the next get_pending_airport_applications, so nobody is
\* submitted twice; this includes applicants that were pending because
\* they had no task record.
C24_MarkedNotPendingAgain ==
    (fname = "rerun" /\ fout.done) => ~fout.pending

\* The state of the certification checkbox during the five methods.
CheckboxChecked == IF fout = NotRun THEN fin.checked ELSE fout.checked

\* C25: the checkbox methods never turn a checked certification checkbox
\* into an unchecked one: once it is checked, at the start or by a click,
\* it stays checked up to the Submit step.
C25_CheckedStaysChecked ==
    [][(fname = "checkbox" /\ CheckboxChecked) => CheckboxChecked']_vars

\* C26: fill_duplicate_check returns success, letting the form stage start,
\* only if the scripted injection set the date-of-birth field and the SSN4
\* field was filled; Continue is never clicked with either field empty.
C26_DuplicateCheckNeedsBothFields ==
    fx.stage = "dup" =>
        /\ (Len(results) = 4 /\ results[4]) => (fx.injected /\ fx.ssn)
        /\ fx.cont => (fx.injected /\ fx.ssn)

\* C27: in --id mode, when the repository returns no record for the id the
\* run ends without opening a browser session and without invoking
\* mark_badge_request_sent; when both an id and --all are given only the
\* single id is processed.
C27_IdNotFoundDoesNothing ==
    application_id =>
        /\ Len(records) <= 1
        /\ Len(sessions) <= 1
        /\ \A j \in Ids : pipelines[j] <= (IF j = 1 THEN 1 ELSE 0)
        /\ ~summary
        /\ records = << >> =>
              /\ sessions = << >>
              /\ pc \in {"start", "done", "crashed"}
              /\ \A j \in Ids : pipelines[j] = 0 /\ marks[j] = 0

\* The id was given together with --all and the repository had no record
\* for it: run_apply has returned.
C27_Witness ==
    /\ application_id
    /\ all_pending
    /\ envRepo
    /\ pc = "done"
    /\ records = << >>

\* C28: fill_autocomplete_field clicks, clears and types only into an input
\* whose visibility check returned true: on every path through the lookup,
\* the scan of field containers with a raising visibility check included,
\* inp is a confirmed-visible element or empty, and empty leads to the
\* 'could not find' failure.
C28_TypesOnlyIntoVisibleInput ==
    (fname = "autocomplete" /\ fout.done) =>
        /\ fout.inp \in {"visible", "none"}
        /\ fout.typed => fout.inp = "visible"
        /\ fout.inp = "none" => (fout.could_not_find /\ ~fout.typed)

====
